---- MODULE Spec2Model ----
(***************************************************************************)
(* DependencyAnalyst (src/dependency_analyst.py): the namespaced index     *)
(* over the four component collections, the pass over each workflow's      *)
(* actions, and the cumulative missing-dependency report.                  *)
(*                                                                         *)
(* Python values are modelled by what the code does with them:             *)
(*   None, int, str   tagged records  [py |-> "None"], [py |-> "int", ..]   *)
(*   dict             a function from field names to values; a field that  *)
(*                    is absent is not in its DOMAIN                        *)
(*   list             [py |-> "list", items |-> a sequence]                 *)
(*   object identity  records live in  heap  and are named by a reference; *)
(*                    the collections and the index hold references        *)
(***************************************************************************)
EXTENDS Integers, Sequences, FiniteSets, TLC

VARIABLES
    heap,                   \* the record objects: reference -> dict
    full_dm_data,           \* constructor argument: list of Data Manager references
    full_single_exp_data,   \* constructor argument: list of Single-Form references
    full_multi_exp_data,    \* constructor argument: list of Multiple-Form references
    full_vp_data,           \* constructor argument: list of workflow references
    pc,                     \* "new", "ready" (constructed) or "raised"
    indexed_component_list, \* self.indexed_component_list: key -> reference
    missing_dependencies,   \* self.missing_dependencies: list of report entries
    result,                 \* what the caller got from get_missing_dependencies
    returned,               \* what the caller got from analyze_vp_dependencies
    workers,                \* the frames of the concurrent calls, if any
    rebuilt_index           \* index of a second DependencyAnalyst instance

vars == << heap, full_dm_data, full_single_exp_data, full_multi_exp_data,
           full_vp_data, pc, indexed_component_list, missing_dependencies,
           result, returned, workers, rebuilt_index >>

-----------------------------------------------------------------------------
(* Python values *)

PyNone == [py |-> "None"]

PyInt(n) == [py |-> "int", v |-> n]

PyStr(s) == [py |-> "str", v |-> s]

PyList(items) == [py |-> "list", items |-> items]

EmptyDict == << >>

IsDict(x) == "py" \notin DOMAIN x

\* bool(x): None, 0, "" and {} are falsy
Truthy(x) ==
    IF IsDict(x) THEN DOMAIN x # {}
    ELSE IF x.py = "None" THEN FALSE
    ELSE IF x.py = "int" THEN x.v # 0
    ELSE IF x.py = "list" THEN x.items # << >>
    ELSE x.v # ""

\* x or y
PyOr(x, y) == IF Truthy(x) THEN x ELSE y

\* d.get(k): None when the field is absent
Get(d, k) == IF k \in DOMAIN d THEN d[k] ELSE PyNone

Digit(n) ==
    CASE n = 0 -> "0" [] n = 1 -> "1" [] n = 2 -> "2" [] n = 3 -> "3"
      [] n = 4 -> "4" [] n = 5 -> "5" [] n = 6 -> "6" [] n = 7 -> "7"
      [] n = 8 -> "8" [] n = 9 -> "9"

RECURSIVE NatToStr(_)
NatToStr(n) == IF n < 10 THEN Digit(n) ELSE NatToStr(n \div 10) \o Digit(n % 10)

\* str(x) of a scalar
Str(x) ==
    IF x.py = "None" THEN "None"
    ELSE IF x.py = "str" THEN x.v
    ELSE IF x.v < 0 THEN "-" \o NatToStr(0 - x.v)
    ELSE NatToStr(x.v)

-----------------------------------------------------------------------------
(* Key prefixes, lines 3-9 *)

DM_PREFIX == "dm^"

SINGLE_EXP_PREFIX == "single_exp^"

MULTI_EXP_PREFIX == "multi_exp^"

FUNCTION_PREFIX == "func^"

JOB_PREFIX == "job^"

DJOB_PREFIX == "djob^"

-----------------------------------------------------------------------------
(* The index: a dict from key to a reference to the owning record *)

\* The n-th record object the caller made for collection coll
Ref(coll, n) == [coll |-> coll, n |-> n]

\* Put that keeps the record a key already has:  d.setdefault(k, v)
PutIfAbsent(d, k, v) ==
    [x \in (DOMAIN d) \cup {k} |-> IF x \in DOMAIN d THEN d[x] ELSE v]

\* d[k] = v
Put(d, k, v) == [x \in (DOMAIN d) \cup {k} |-> IF x = k THEN v ELSE d[x]]

\* The outcome of a loop of __init__: the index so far, or an exception
Ok(index) == [raised |-> "", index |-> index]

Raised(exc) == [raised |-> exc, index |-> EmptyDict]

\* for rec in data: key = prefix + str(rec["id"]); index[key] = rec
\* rec["id"] raises KeyError when the record has no "id" field.
RECURSIVE IndexById(_, _, _, _, _)
IndexById(acc, objs, data, prefix, i) ==
    IF acc.raised # "" \/ i > Len(data) THEN acc
    ELSE IF "id" \notin DOMAIN objs[data[i]] THEN Raised("KeyError")
    ELSE IndexById(Ok(Put(acc.index, prefix \o Str(objs[data[i]]["id"]), data[i])),
                   objs, data, prefix, i + 1)

\* TriggerKey with API triggers indexed too, under api^<id>
TriggerKeyIndexingApi(vp) ==
    LET trigger == PyOr(Get(vp, "trigger"), EmptyDict)
        ttype == Get(trigger, "type")
        nameOf(field) == Get(PyOr(Get(trigger, field), EmptyDict), "name")
    IN  IF ttype = PyStr("function") THEN
            IF Truthy(nameOf("function"))
            THEN PyStr(FUNCTION_PREFIX \o Str(nameOf("function"))) ELSE PyNone
        ELSE IF ttype = PyStr("job") THEN
            IF Truthy(nameOf("job"))
            THEN PyStr(JOB_PREFIX \o Str(nameOf("job"))) ELSE PyNone
        ELSE IF ttype = PyStr("dedicated_job") THEN
            IF Truthy(nameOf("dedicated_job"))
            THEN PyStr(DJOB_PREFIX \o Str(nameOf("dedicated_job"))) ELSE PyNone
        ELSE IF ttype = PyStr("api") THEN PyStr("api^" \o Str(Get(vp, "id")))
        ELSE PyNone

\* Lines 37-51: the key of a workflow as a target, or None
TriggerKey(vp) ==
    LET trigger == PyOr(Get(vp, "trigger"), EmptyDict)
        ttype == Get(trigger, "type")
        nameOf(field) == Get(PyOr(Get(trigger, field), EmptyDict), "name")
    IN  IF ttype = PyStr("function") THEN
            IF Truthy(nameOf("function"))
            THEN PyStr(FUNCTION_PREFIX \o Str(nameOf("function"))) ELSE PyNone
        ELSE IF ttype = PyStr("job") THEN
            IF Truthy(nameOf("job"))
            THEN PyStr(JOB_PREFIX \o Str(nameOf("job"))) ELSE PyNone
        ELSE IF ttype = PyStr("dedicated_job") THEN
            IF Truthy(nameOf("dedicated_job"))
            THEN PyStr(DJOB_PREFIX \o Str(nameOf("dedicated_job"))) ELSE PyNone
        ELSE PyNone

\* for vp in full_vp_data: ... if key is not None: index[key] = vp
RECURSIVE IndexVps(_, _, _, _)

\* The key left over from the last workflow that had one
RECURSIVE StaleKey(_, _, _)
StaleKey(objs, data, i) ==
    IF i = 0 THEN PyNone
    ELSE IF TriggerKey(objs[data[i]]) # PyNone THEN TriggerKey(objs[data[i]])
    ELSE StaleKey(objs, data, i - 1)

\* IndexVps without  key = None  at the head of the loop body
RECURSIVE IndexVpsStaleKey(_, _, _, _)
IndexVpsStaleKey(acc, objs, data, i) ==
    IF acc.raised # "" \/ i > Len(data) THEN acc
    ELSE LET key == StaleKey(objs, data, i)
         IN  IndexVpsStaleKey(IF key # PyNone
                              THEN Ok(Put(acc.index, key.v, data[i]))
                              ELSE acc,
                              objs, data, i + 1)

IndexVps(acc, objs, data, i) ==
    IF acc.raised # "" \/ i > Len(data) THEN acc
    ELSE LET key == TriggerKey(objs[data[i]])
         IN  IndexVps(IF key # PyNone
                      THEN Ok(Put(acc.index, key.v, data[i]))
                      ELSE acc,
                      objs, data, i + 1)


\* BuildIndex with the Single-Form loop using the Data Manager prefix
BuildIndexSharedPrefix(objs, dms, singles, multis, wfs) ==
    LET a == IndexById(Ok(EmptyDict), objs, dms, DM_PREFIX, 1)
        b == IndexById(a, objs, singles, DM_PREFIX, 1)
        c == IndexById(b, objs, multis, MULTI_EXP_PREFIX, 1)
    IN  IndexVps(c, objs, wfs, 1)

\* __init__, lines 25-54: the four loops in order
BuildIndex(objs, dms, singles, multis, wfs) ==
    LET a == IndexById(Ok(EmptyDict), objs, dms, DM_PREFIX, 1)
        b == IndexById(a, objs, singles, SINGLE_EXP_PREFIX, 1)
        c == IndexById(b, objs, multis, MULTI_EXP_PREFIX, 1)
    IN  IndexVps(c, objs, wfs, 1)

-----------------------------------------------------------------------------
(* analyze_vp_dependencies, lines 59-102 *)

RecordActionTypes ==
    { PyStr("find_record"), PyStr("find_records"), PyStr("create_record"),
      PyStr("create_records"), PyStr("update_record"), PyStr("delete_record") }

\* ActionKey with names tested like form_data_id:  if name is not None
ActionKeyNameNotNone(action) ==
    LET a_type == Get(action, "type")
        nameOf(field) == Get(PyOr(Get(action, field), EmptyDict), "name")
        fid == Get(action, "form_data_id")
    IN  IF a_type = PyStr("function") THEN
            IF nameOf("function") # PyNone
            THEN PyStr(FUNCTION_PREFIX \o Str(nameOf("function"))) ELSE PyNone
        ELSE IF a_type = PyStr("job") THEN
            IF nameOf("job") # PyNone
            THEN PyStr(JOB_PREFIX \o Str(nameOf("job"))) ELSE PyNone
        ELSE IF a_type = PyStr("dedicated_job") THEN
            IF nameOf("dedicated_job") # PyNone
            THEN PyStr(DJOB_PREFIX \o Str(nameOf("dedicated_job"))) ELSE PyNone
        ELSE IF a_type \in RecordActionTypes THEN
            IF fid # PyNone THEN PyStr(DM_PREFIX \o Str(fid)) ELSE PyNone
        ELSE PyNone

\* Lines 65-84: the search key an action derives, or None
ActionKey(action) ==
    LET a_type == Get(action, "type")
        nameOf(field) == Get(PyOr(Get(action, field), EmptyDict), "name")
        fid == Get(action, "form_data_id")
    IN  IF a_type = PyStr("function") THEN
            IF Truthy(nameOf("function"))
            THEN PyStr(FUNCTION_PREFIX \o Str(nameOf("function"))) ELSE PyNone
        ELSE IF a_type = PyStr("job") THEN
            IF Truthy(nameOf("job"))
            THEN PyStr(JOB_PREFIX \o Str(nameOf("job"))) ELSE PyNone
        ELSE IF a_type = PyStr("dedicated_job") THEN
            IF Truthy(nameOf("dedicated_job"))
            THEN PyStr(DJOB_PREFIX \o Str(nameOf("dedicated_job"))) ELSE PyNone
        ELSE IF a_type \in RecordActionTypes THEN
            IF fid # PyNone THEN PyStr(DM_PREFIX \o Str(fid)) ELSE PyNone
        ELSE PyNone

\* self.indexed_component_list.get(search_key)
IndexGet(index, key) == IF key \in DOMAIN index THEN index[key] ELSE PyNone

\* ResolveAction that records a key only once per workflow
ResolveActionDedup(index, lists, action) ==
    LET search_key == ActionKey(action)
    IN  IF search_key = PyNone \/ search_key.v \in { lists.deps[i] : i \in DOMAIN lists.deps }
        THEN lists
        ELSE [ deps |-> Append(lists.deps, search_key.v),
               missing |-> IF IndexGet(index, search_key.v) = PyNone
                           THEN Append(lists.missing, search_key.v)
                           ELSE lists.missing ]

\* ResolveAction that records a missing key only once per workflow
ResolveActionMissingOnce(index, lists, action) ==
    LET search_key == ActionKey(action)
    IN  IF search_key = PyNone THEN lists
        ELSE [ deps |-> Append(lists.deps, search_key.v),
               missing |-> IF /\ IndexGet(index, search_key.v) = PyNone
                              /\ search_key.v \notin
                                   { lists.missing[i] : i \in DOMAIN lists.missing }
                           THEN Append(lists.missing, search_key.v)
                           ELSE lists.missing ]

\* ResolveAction with the test inverted:  if search_component is not None
ResolveActionInverted(index, lists, action) ==
    LET search_key == ActionKey(action)
    IN  IF search_key = PyNone THEN lists
        ELSE [ deps |-> Append(lists.deps, search_key.v),
               missing |-> IF IndexGet(index, search_key.v) # PyNone
                           THEN Append(lists.missing, search_key.v)
                           ELSE lists.missing ]

\* Lines 87-91: what one action adds to the two lists
ResolveAction(index, lists, action) ==
    LET search_key == ActionKey(action)
    IN  IF search_key = PyNone THEN lists
        ELSE [ deps |-> Append(lists.deps, search_key.v),
               missing |-> IF IndexGet(index, search_key.v) = PyNone
                           THEN Append(lists.missing, search_key.v)
                           ELSE lists.missing ]

\* Lines 61-91: the loop over the actions of one workflow, in stored order
RECURSIVE ResolveActions(_, _, _, _)
ResolveActions(index, lists, vp_actions, i) ==
    IF i > Len(vp_actions) THEN lists
    ELSE ResolveActions(index, ResolveAction(index, lists, vp_actions[i]),
                        vp_actions, i + 1)

\* vp.get("actions") or []
ActionsOf(vp) == PyOr(Get(vp, "actions"), PyList(<< >>)).items

\* AnalyzeVp that replaces the entry a workflow already has in the report
AnalyzeVpMerging(st, index, ref) ==
    LET vp == st.heap[ref]
        lists == ResolveActions(index, [deps |-> << >>, missing |-> << >>],
                                ActionsOf(vp), 1)
        entry == [ component_id |-> Get(vp, "id"),
                   component_name |-> Get(vp, "name"),
                   missing_dependencies |-> PyList(lists.missing) ]
        annotated == Put(Put(vp, "vp_dependencies", PyList(lists.deps)),
                         "vp_missing_dependencies", PyList(lists.missing))
        old == { i \in DOMAIN st.report :
                   st.report[i]["component_id"] = entry["component_id"] }
    IN  [ heap |-> [st.heap EXCEPT ![ref] = annotated],
          report |-> IF old = {} THEN Append(st.report, entry)
                     ELSE [i \in DOMAIN st.report |->
                             IF i \in old THEN entry ELSE st.report[i]] ]

\* AnalyzeVp that extends the lists the workflow already carries
AnalyzeVpExtending(st, index, ref) ==
    LET vp == st.heap[ref]
        start == IF "vp_dependencies" \in DOMAIN vp
                 THEN [ deps |-> vp["vp_dependencies"].items,
                        missing |-> vp["vp_missing_dependencies"].items ]
                 ELSE [ deps |-> << >>, missing |-> << >> ]
        lists == ResolveActions(index, start, ActionsOf(vp), 1)
        entry == [ component_id |-> Get(vp, "id"),
                   component_name |-> Get(vp, "name"),
                   missing_dependencies |-> PyList(lists.missing) ]
        annotated == Put(Put(vp, "vp_dependencies", PyList(lists.deps)),
                         "vp_missing_dependencies", PyList(lists.missing))
    IN  [ heap |-> [st.heap EXCEPT ![ref] = annotated],
          report |-> Append(st.report, entry) ]

\* AnalyzeVp that stores a new dict of id, name and the two annotations
AnalyzeVpReplacing(st, index, ref) ==
    LET vp == st.heap[ref]
        lists == ResolveActions(index, [deps |-> << >>, missing |-> << >>],
                                ActionsOf(vp), 1)
        entry == [ component_id |-> Get(vp, "id"),
                   component_name |-> Get(vp, "name"),
                   missing_dependencies |-> PyList(lists.missing) ]
        annotated == [ id |-> Get(vp, "id"), name |-> Get(vp, "name"),
                       vp_dependencies |-> PyList(lists.deps),
                       vp_missing_dependencies |-> PyList(lists.missing) ]
    IN  [ heap |-> [st.heap EXCEPT ![ref] = annotated],
          report |-> Append(st.report, entry) ]

\* Lines 61-100 for one workflow: the report entry and the two annotations
AnalyzeVp(st, index, ref) ==
    LET vp == st.heap[ref]
        lists == ResolveActions(index, [deps |-> << >>, missing |-> << >>],
                                ActionsOf(vp), 1)
        entry == [ component_id |-> Get(vp, "id"),
                   component_name |-> Get(vp, "name"),
                   missing_dependencies |-> PyList(lists.missing) ]
        annotated == Put(Put(vp, "vp_dependencies", PyList(lists.deps)),
                         "vp_missing_dependencies", PyList(lists.missing))
    IN  [ heap |-> [st.heap EXCEPT ![ref] = annotated],
          report |-> Append(st.report, entry) ]

\* for vp in vp_data
RECURSIVE AnalyzeBatch(_, _, _, _)
AnalyzeBatch(st, index, vp_data, i) ==
    IF i > Len(vp_data) THEN st
    ELSE AnalyzeBatch(AnalyzeVp(st, index, vp_data[i]), index, vp_data, i + 1)

\* Line 102: the list passed in is what is returned
ReturnValue(vp_data) == [called |-> TRUE, value |-> vp_data]

NotCalled == [called |-> FALSE, value |-> << >>]

\* Line 105: the list object itself is returned, not a copy of it
ReturnedList(list) == [alias |-> "self.missing_dependencies"]

NoResult == [alias |-> ""]

\* The entries a caller reads through a returned list
Observe(r, current) == IF r = NoResult THEN << >> ELSE current

-----------------------------------------------------------------------------
(* Bounds and the inputs the model draws from *)

\* longest action list of a workflow
MaxActions == 2

\* the report is capped at this many entries
MaxReport == 2

SeqsUpTo(S, n) == UNION { [1..k -> S] : k \in 0..n }

Range(seq) == { seq[i] : i \in DOMAIN seq }

NamedAction(type, name) ==
    (type :> [name |-> name]) @@ [type |-> PyStr(type)]

RecordAction(type, fid) == [type |-> PyStr(type), form_data_id |-> fid]

\* One action of each recognized type, and the ways an action yields no key
Actions ==
    { NamedAction("function", PyStr("7")),
      [type |-> PyStr("function")],
      NamedAction("job", PyStr("X")),
      NamedAction("job", PyStr("")),
      NamedAction("dedicated_job", PyStr("X")),
      RecordAction("find_record", PyInt(5)),
      RecordAction("find_record", PyInt(9)),
      RecordAction("find_records", PyInt(5)),
      RecordAction("create_record", PyStr("")),
      [type |-> PyStr("create_records")],
      RecordAction("update_record", PyInt(9)),
      RecordAction("delete_record", PyNone),
      [type |-> PyStr("api")] }

\* The actions of the runs that vary the triggers and the calls
FewActions ==
    { NamedAction("function", PyStr("7")),
      NamedAction("job", PyStr("X")),
      NamedAction("job", PyStr("")),
      RecordAction("find_record", PyInt(5)),
      RecordAction("find_record", PyInt(9)),
      [type |-> PyStr("api")] }

Trigger(type, name) ==
    [type |-> PyStr(type)] @@ (type :> [name |-> name])

ApiTrigger == [type |-> PyStr("api")]

\* Workflow 1, without an action list
Workflow1(trigger) == [id |-> PyInt(7), name |-> PyStr("A"), trigger |-> trigger]

\* Workflow 2, without a trigger and without an action list
Workflow2 == [id |-> PyInt(8), name |-> PyStr("B")]

\* The pairs of triggers: an API workflow beside one without a trigger, a job
\* workflow beside one without a trigger, and an API workflow beside a
\* function named as the API workflow's id
TriggerPairs ==
    { << Workflow1(ApiTrigger), Workflow2 >>,
      << Workflow1(Trigger("job", PyStr("X"))), Workflow2 >>,
      << Workflow1(ApiTrigger),
         Put(Workflow2, "trigger", Trigger("function", PyStr("7"))) >> }

\* The pairs with workflow 2 given no action list, None, or a list of actions
WorkflowPairs(pairs, actions) ==
    pairs
    \cup { << b[1], Put(b[2], "actions", PyNone) >> : b \in pairs }
    \cup { << b[1], Put(b[2], "actions", PyList(l)) >> :
             b \in pairs, l \in SeqsUpTo(actions, MaxActions) }

VpRefs == { Ref("vp", 1), Ref("vp", 2) }

Unbuilt == [raised |-> "unbuilt", index |-> EmptyDict]

\* No concurrent call
NoWorkers == << >>

\* Before construction: nothing indexed, nothing reported
Fresh ==
    /\ pc = "new"
    /\ indexed_component_list = EmptyDict
    /\ missing_dependencies = << >>
    /\ result = NoResult
    /\ returned = NotCalled
    /\ rebuilt_index = Unbuilt

\* One Data Manager with id 5 and two workflows, both passed to the constructor
Init ==
    /\ \E w \in WorkflowPairs(TriggerPairs, FewActions) :
         heap = (Ref("dm", 1) :> [id |-> PyInt(5)])
                @@ (Ref("vp", 1) :> w[1]) @@ (Ref("vp", 2) :> w[2])
    /\ full_dm_data = << Ref("dm", 1) >>
    /\ full_single_exp_data = << >>
    /\ full_multi_exp_data = << >>
    /\ full_vp_data = << Ref("vp", 1), Ref("vp", 2) >>
    /\ workers = NoWorkers
    /\ Fresh

\* No workflow passed to the constructor: the index is built from the single
\* Data Manager, and workflow 2 draws on every kind of action
InitDmOnly ==
    /\ \E w \in WorkflowPairs({ << Workflow1(ApiTrigger), Workflow2 >> }, Actions) :
         heap = (Ref("dm", 1) :> [id |-> PyInt(5)])
                @@ (Ref("vp", 1) :> w[1]) @@ (Ref("vp", 2) :> w[2])
    /\ full_dm_data = << Ref("dm", 1) >>
    /\ full_single_exp_data = << >>
    /\ full_multi_exp_data = << >>
    /\ full_vp_data = << >>
    /\ workers = NoWorkers
    /\ Fresh

\* longest workflow list given to the constructor
MaxRecords == 2

\* Data Manager lists: ids 5 and "5" yield the same key; one record has no id
DmLists ==
    LET r5 == [id |-> PyInt(5)]
        s5 == [id |-> PyStr("5")]
        r9 == [id |-> PyInt(9)]
        noid == [name |-> PyStr("no id")]
    IN  { << >>, << r5 >>, << noid >>, << r5, r9 >>, << r9, r5 >>,
          << r5, s5 >>, << s5, r5 >>, << r5, noid >> }

\* Single-Form and Multiple-Form lists
FormLists ==
    LET r5 == [id |-> PyInt(5)]
        r9 == [id |-> PyInt(9)]
        noid == [name |-> PyStr("no id")]
    IN  { << << >>, << >> >>,
          << << r5 >>, << r5 >> >>,
          << << noid >>, << r5 >> >>,
          << << r5 >>, << r9 >> >>,
          << << r5 >>, << noid, r9 >> >>,
          << << r5, r9 >>, << r9, r5 >> >> }

\* Workflow triggers: the three indexed types, an API trigger, a function
\* trigger without a name, and no trigger at all
IndexedWorkflows ==
    { [name |-> PyStr("W"), trigger |-> t] :
        t \in { Trigger("function", PyStr("X")), Trigger("job", PyStr("X")),
                Trigger("dedicated_job", PyStr("X")), ApiTrigger,
                [type |-> PyStr("function"), function |-> EmptyDict] } }
    \cup { [name |-> PyStr("W")] }

\* The references of a list of n records of collection coll
Refs(coll, n) == [i \in 1..n |-> Ref(coll, i)]

\* The heap holding the records of a list under those references
HeapOf(coll, records) ==
    [r \in Range(Refs(coll, Len(records))) |-> records[r.n]]

InitIndex ==
    /\ \E dms \in DmLists, forms \in FormLists,
          wfs \in SeqsUpTo(IndexedWorkflows, MaxRecords) :
         /\ heap = HeapOf("dm", dms) @@ HeapOf("single_exp", forms[1])
                   @@ HeapOf("multi_exp", forms[2]) @@ HeapOf("vp", wfs)
         /\ full_dm_data = Refs("dm", Len(dms))
         /\ full_single_exp_data = Refs("single_exp", Len(forms[1]))
         /\ full_multi_exp_data = Refs("multi_exp", Len(forms[2]))
         /\ full_vp_data = Refs("vp", Len(wfs))
    /\ workers = NoWorkers
    /\ Fresh

-----------------------------------------------------------------------------
(* Operations *)

\* DependencyAnalyst(full_dm_data, full_single_exp_data, full_multi_exp_data,
\* full_vp_data): an exception leaves the caller without an instance
Construct ==
    /\ pc = "new"
    /\ LET built == BuildIndex(heap, full_dm_data, full_single_exp_data,
                               full_multi_exp_data, full_vp_data)
       IN  IF built.raised = ""
           THEN pc' = "ready" /\ indexed_component_list' = built.index
           ELSE pc' = "raised" /\ UNCHANGED indexed_component_list
    /\ UNCHANGED << heap, full_dm_data, full_single_exp_data,
                    full_multi_exp_data, full_vp_data, missing_dependencies,
                    result, returned, workers, rebuilt_index >>

\* analyze_vp_dependencies(vp_data)
Analyze(vp_data) ==
    /\ pc = "ready"
    /\ Len(missing_dependencies) + Len(vp_data) <= MaxReport
    /\ LET done == AnalyzeBatch([heap |-> heap, report |-> missing_dependencies],
                                indexed_component_list, vp_data, 1)
       IN  /\ heap' = done.heap
           /\ missing_dependencies' = done.report
    /\ returned' = ReturnValue(vp_data)
    /\ UNCHANGED << full_dm_data, full_single_exp_data, full_multi_exp_data,
                    full_vp_data, pc, indexed_component_list, result,
                    workers, rebuilt_index >>

\* get_missing_dependencies()
GetMissing ==
    /\ pc = "ready"
    /\ result' = ReturnedList(missing_dependencies)
    /\ UNCHANGED << heap, full_dm_data, full_single_exp_data,
                    full_multi_exp_data, full_vp_data, pc,
                    indexed_component_list, missing_dependencies,
                    returned, workers, rebuilt_index >>

\* The orders in which the same records can be listed
Perms(seq) ==
    { [i \in 1..Len(seq) |-> seq[p[i]]] : p \in Permutations(1..Len(seq)) }

\* A second DependencyAnalyst over the same records, each collection given in
\* some order
Rebuild ==
    /\ pc = "ready"
    /\ \E dms \in Perms(full_dm_data), singles \in Perms(full_single_exp_data),
          multis \in Perms(full_multi_exp_data), wfs \in Perms(full_vp_data) :
         rebuilt_index' = BuildIndex(heap, dms, singles, multis, wfs)
    /\ UNCHANGED << heap, full_dm_data, full_single_exp_data,
                    full_multi_exp_data, full_vp_data, pc,
                    indexed_component_list, missing_dependencies, result,
                    returned, workers >>

Next ==
    \/ Construct
    \/ \E vp_data \in SeqsUpTo(VpRefs, MaxReport) : Analyze(vp_data)
    \/ GetMissing

Spec == Init /\ [][Next]_vars

\* The resolver against the index of the single Data Manager
SpecDmOnly == InitDmOnly /\ [][Next]_vars

NextIndex ==
    \/ Construct
    \/ Rebuild

\* Index construction over varied collections
SpecIndex == InitIndex /\ [][NextIndex]_vars

-----------------------------------------------------------------------------
(* Two calls of analyze_vp_dependencies running concurrently on one instance *)

\* Workflow 3, without a trigger and without an action list
Workflow3 == [id |-> PyInt(9), name |-> PyStr("C")]

W3Ref == Ref("vp", 3)

ConcRefs == VpRefs \cup { W3Ref }

\* The actions workflow 1 draws on in the concurrent runs
ConcActions ==
    { RecordAction("find_record", PyInt(5)),
      RecordAction("find_record", PyInt(9)) }

Distinct(seq) ==
    \A i, j \in DOMAIN seq : i # j => seq[i] # seq[j]

\* The two batches: no workflow twice, no workflow in both
Splits ==
    { b \in SeqsUpTo(ConcRefs, MaxReport) \X SeqsUpTo(ConcRefs, MaxReport) :
        Distinct(b[1] \o b[2]) }

\* The frame of a call that has not started
Frame(vp_data) ==
    [ vp_data |-> vp_data, pc |-> "call", i |-> 1, k |-> 1,
      lists |-> [deps |-> << >>, missing |-> << >>] ]

WorkerIds == { 1, 2 }

\* One Data Manager with id 5 and three workflows; workflow 1 is started by
\* job X, workflow 2 uses Data Manager 9 and job X, workflow 3 function 7
InitConc ==
    /\ \E l \in SeqsUpTo(ConcActions, MaxActions) :
         heap = (Ref("dm", 1) :> [id |-> PyInt(5)])
                @@ (Ref("vp", 1) :>
                      Put(Workflow1(Trigger("job", PyStr("X"))),
                          "actions", PyList(l)))
                @@ (Ref("vp", 2) :>
                      Put(Workflow2, "actions",
                          PyList(<< RecordAction("find_record", PyInt(9)),
                                    NamedAction("job", PyStr("X")) >>)))
                @@ (W3Ref :>
                      Put(Workflow3, "actions",
                          PyList(<< NamedAction("function", PyStr("7")) >>)))
    /\ full_dm_data = << Ref("dm", 1) >>
    /\ full_single_exp_data = << >>
    /\ full_multi_exp_data = << >>
    /\ full_vp_data = << Ref("vp", 1), Ref("vp", 2), W3Ref >>
    /\ \E b \in Splits : workers = << Frame(b[1]), Frame(b[2]) >>
    /\ Fresh

\* The workflow a frame is at
CurrentVp(w) == workers[w].vp_data[workers[w].i]

\* The frame's two lists made one list shared by every frame
BeginVpShared(ws, w) ==
    [ v \in DOMAIN ws |->
        IF v = w
        THEN [ws[v] EXCEPT !.lists = [deps |-> << >>, missing |-> << >>],
                           !.k = 1, !.pc = "for_action"]
        ELSE [ws[v] EXCEPT !.lists = [deps |-> << >>, missing |-> << >>]] ]

\* Lines 60-63: the next workflow of the batch, with two new empty lists
BeginVp(ws, w) ==
    [ws EXCEPT ![w].lists = [deps |-> << >>, missing |-> << >>],
               ![w].k = 1, ![w].pc = "for_action"]

\* Line 59: the call is made on the constructed instance
Call(w) ==
    /\ pc = "ready"
    /\ workers[w].pc = "call"
    /\ workers' = [workers EXCEPT ![w].pc = "for_vp"]
    /\ UNCHANGED << heap, full_dm_data, full_single_exp_data,
                    full_multi_exp_data, full_vp_data, pc,
                    indexed_component_list, missing_dependencies, result,
                    returned, rebuilt_index >>

\* Lines 60-63
ForVp(w) ==
    /\ workers[w].pc = "for_vp"
    /\ workers[w].i <= Len(workers[w].vp_data)
    /\ workers' = BeginVp(workers, w)
    /\ UNCHANGED << heap, full_dm_data, full_single_exp_data,
                    full_multi_exp_data, full_vp_data, pc,
                    indexed_component_list, missing_dependencies, result,
                    returned, rebuilt_index >>

\* Lines 65-91: one action resolved against the index
ForAction(w) ==
    /\ workers[w].pc = "for_action"
    /\ LET vp_actions == ActionsOf(heap[CurrentVp(w)])
           k == workers[w].k
       IN  /\ k <= Len(vp_actions)
           /\ workers' =
                [workers EXCEPT
                   ![w].lists = ResolveAction(indexed_component_list,
                                              workers[w].lists, vp_actions[k]),
                   ![w].k = k + 1]
    /\ UNCHANGED << heap, full_dm_data, full_single_exp_data,
                    full_multi_exp_data, full_vp_data, pc,
                    indexed_component_list, missing_dependencies, result,
                    returned, rebuilt_index >>

\* Lines 94-98: the append, in one step
AppendEntry(w) ==
    /\ workers[w].pc = "for_action"
    /\ workers[w].k > Len(ActionsOf(heap[CurrentVp(w)]))
    /\ LET vp == heap[CurrentVp(w)]
       IN  missing_dependencies' =
             Append(missing_dependencies,
                    [ component_id |-> Get(vp, "id"),
                      component_name |-> Get(vp, "name"),
                      missing_dependencies |->
                          PyList(workers[w].lists.missing) ])
    /\ workers' = [workers EXCEPT ![w].pc = "set_deps"]
    /\ UNCHANGED << heap, full_dm_data, full_single_exp_data,
                    full_multi_exp_data, full_vp_data, pc,
                    indexed_component_list, result, returned, rebuilt_index >>

\* Line 99
SetDeps(w) ==
    /\ workers[w].pc = "set_deps"
    /\ heap' = [heap EXCEPT ![CurrentVp(w)] =
                  Put(@, "vp_dependencies", PyList(workers[w].lists.deps))]
    /\ workers' = [workers EXCEPT ![w].pc = "set_missing"]
    /\ UNCHANGED << full_dm_data, full_single_exp_data, full_multi_exp_data,
                    full_vp_data, pc, indexed_component_list,
                    missing_dependencies, result, returned, rebuilt_index >>

\* Line 100, and back to the head of the loop
SetMissing(w) ==
    /\ workers[w].pc = "set_missing"
    /\ heap' = [heap EXCEPT ![CurrentVp(w)] =
                  Put(@, "vp_missing_dependencies",
                      PyList(workers[w].lists.missing))]
    /\ workers' = [workers EXCEPT ![w].pc = "for_vp", ![w].i = @ + 1]
    /\ UNCHANGED << full_dm_data, full_single_exp_data, full_multi_exp_data,
                    full_vp_data, pc, indexed_component_list,
                    missing_dependencies, result, returned, rebuilt_index >>

\* Line 102
Return(w) ==
    /\ workers[w].pc = "for_vp"
    /\ workers[w].i > Len(workers[w].vp_data)
    /\ workers' = [workers EXCEPT ![w].pc = "returned"]
    /\ UNCHANGED << heap, full_dm_data, full_single_exp_data,
                    full_multi_exp_data, full_vp_data, pc,
                    indexed_component_list, missing_dependencies, result,
                    returned, rebuilt_index >>

NextConc ==
    \/ Construct
    \/ \E w \in WorkerIds : Call(w)
    \/ \E w \in WorkerIds : ForVp(w)
    \/ \E w \in WorkerIds : ForAction(w)
    \/ \E w \in WorkerIds : AppendEntry(w)
    \/ \E w \in WorkerIds : SetDeps(w)
    \/ \E w \in WorkerIds : SetMissing(w)
    \/ \E w \in WorkerIds : Return(w)

\* The index built once, then two calls interleaved statement by statement
SpecConc == InitConc /\ [][NextConc]_vars

-----------------------------------------------------------------------------
(* What the statements say, in the terms of the statements *)

W1 == Ref("vp", 1)

W2 == Ref("vp", 2)

\* The workflow has been analysed: it carries the two annotations
Analysed(ref) == "vp_dependencies" \in DOMAIN heap[ref]

DepsOf(ref) == heap[ref]["vp_dependencies"].items

MissingOf(ref) == heap[ref]["vp_missing_dependencies"].items

\* The action list as stored in the workflow record
StoredActions(vp) ==
    IF "actions" \in DOMAIN vp /\ vp["actions"] # PyNone
    THEN vp["actions"].items ELSE << >>

NamedTypes == { "function", "job", "dedicated_job" }

RecordTypes == { "find_record", "find_records", "create_record",
                 "create_records", "update_record", "delete_record" }

TypeOf(a) == IF "type" \in DOMAIN a /\ a["type"].py = "str" THEN a["type"].v ELSE ""

KindPrefix(tag) == tag \o "^"

\* The kind tag an action type refers to
TagOfType(type) ==
    CASE type = "function" -> "func"
      [] type = "job" -> "job"
      [] type = "dedicated_job" -> "djob"
      [] OTHER -> "dm"

\* The name of a named action is there and not empty
NamePresent(a) ==
    /\ TypeOf(a) \in DOMAIN a
    /\ "name" \in DOMAIN a[TypeOf(a)]
    /\ a[TypeOf(a)]["name"] \notin { PyNone, PyStr(""), PyInt(0) }

\* The form_data_id of a record action is there (it may be the empty string)
FidPresent(a) == "form_data_id" \in DOMAIN a /\ a["form_data_id"] # PyNone

\* A recognized type with its required identifier
Keyed(a) ==
    \/ TypeOf(a) \in NamedTypes /\ NamePresent(a)
    \/ TypeOf(a) \in RecordTypes /\ FidPresent(a)

\* <kind tag>^<local identifier>
QualifiedKey(a) ==
    KindPrefix(TagOfType(TypeOf(a)))
    \o Str(IF TypeOf(a) \in NamedTypes THEN a[TypeOf(a)]["name"]
           ELSE a["form_data_id"])

\* The keys of the keyed actions, in stored order
RECURSIVE KeysOf(_)
KeysOf(actions) ==
    IF actions = << >> THEN << >>
    ELSE (IF Keyed(Head(actions)) THEN << QualifiedKey(Head(actions)) >> ELSE << >>)
         \o KeysOf(Tail(actions))

\* The subsequence of keys that the index does not hold
RECURSIVE Unresolved(_)
Unresolved(keys) ==
    IF keys = << >> THEN << >>
    ELSE (IF Head(keys) \in DOMAIN indexed_component_list THEN << >>
          ELSE << Head(keys) >>)
         \o Unresolved(Tail(keys))

-----------------------------------------------------------------------------
(* C1 *)

\* C1: the dependency list of every analysed workflow is the sequence of the
\* qualified keys of its actions in stored order, one key for each action of a
\* recognized type whose identifier is present (a non-empty name, a
\* form_data_id that is not None), duplicates kept, whether or not the key is
\* in the index.
C1_DepsMirrorActions ==
    \A ref \in VpRefs :
        Analysed(ref) => DepsOf(ref) = KeysOf(StoredActions(heap[ref]))

\* Two job actions naming X give two entries, and job^X is not in the index
C1_Witness ==
    /\ Analysed(W2)
    /\ StoredActions(heap[W2])
         = << NamedAction("job", PyStr("X")), NamedAction("job", PyStr("X")) >>
    /\ DepsOf(W2) = << "job^X", "job^X" >>
    /\ "job^X" \notin DOMAIN indexed_component_list

-----------------------------------------------------------------------------
(* C2 *)

\* The actions C2 says are skipped: unrecognized type, or identifier absent
\* or empty
SkippedAsStated(a) ==
    \/ TypeOf(a) \notin NamedTypes \cup RecordTypes
    \/ TypeOf(a) \in NamedTypes /\ ~NamePresent(a)
    \/ TypeOf(a) \in RecordTypes
         /\ (~FidPresent(a) \/ a["form_data_id"] = PyStr(""))

\* The actions that are skipped: for a record action only an absent or None
\* form_data_id counts
Skipped(a) ==
    \/ TypeOf(a) \notin NamedTypes \cup RecordTypes
    \/ TypeOf(a) \in NamedTypes /\ ~NamePresent(a)
    \/ TypeOf(a) \in RecordTypes /\ ~FidPresent(a)

\* Both lists hold only keys of actions outside skip, and no more of them
\* than there are such actions
AddsNothing(ref, skip(_)) ==
    LET actions == StoredActions(heap[ref])
        others == { i \in DOMAIN actions : ~skip(actions[i]) }
        keys == { QualifiedKey(actions[i]) : i \in others }
    IN  /\ Len(DepsOf(ref)) <= Cardinality(others)
        /\ Len(MissingOf(ref)) <= Cardinality(others)
        /\ Range(DepsOf(ref)) \subseteq keys
        /\ Range(MissingOf(ref)) \subseteq keys

\* C2 as stated: an action of unrecognized type, or whose name or
\* form_data_id is absent or empty, adds nothing to either list.
C2_AsStated ==
    \A ref \in VpRefs : Analysed(ref) => AddsNothing(ref, SkippedAsStated)

\* C2 amended: an action of unrecognized type, or whose name is absent or
\* empty, or whose form_data_id is absent or None, adds nothing to either
\* list (an empty-string form_data_id yields the key dm^).
C2_SkippedAddNothing ==
    \A ref \in VpRefs : Analysed(ref) => AddsNothing(ref, Skipped)

\* A workflow of an empty-named job action and an action of unrecognized
\* type, analysed, with empty lists
C2_Witness ==
    /\ Analysed(W2)
    /\ StoredActions(heap[W2])
         = << NamedAction("job", PyStr("")), [type |-> PyStr("api")] >>
    /\ DepsOf(W2) = << >>
    /\ MissingOf(W2) = << >>

-----------------------------------------------------------------------------
(* C3 *)

\* C3: the missing list of every analysed workflow is its dependency list
\* restricted to the keys absent from the index, same order and multiplicity.
C3_MissingIsUnresolvedDeps ==
    \A ref \in VpRefs :
        Analysed(ref) => MissingOf(ref) = Unresolved(DepsOf(ref))

\* A missing key followed by a resolved one: only the first is in the
\* missing list
C3_Witness ==
    /\ Analysed(W2)
    /\ DepsOf(W2) = << "dm^9", "dm^5" >>
    /\ MissingOf(W2) = << "dm^9" >>

-----------------------------------------------------------------------------
(* C4 *)

FindRecord(fid) == RecordAction("find_record", PyInt(fid))

\* The index was built from the single Data Manager {id: 5}
OnlyDm5 ==
    /\ pc = "ready"
    /\ full_dm_data = << Ref("dm", 1) >> /\ heap[Ref("dm", 1)] = [id |-> PyInt(5)]
    /\ full_single_exp_data = << >>
    /\ full_multi_exp_data = << >>
    /\ full_vp_data = << >>

\* Scenarios A and B with keys written  tag sep id
ScenariosAB(sep) ==
    (OnlyDm5 /\ Analysed(W2)) =>
        /\ StoredActions(heap[W2]) = << FindRecord(5) >>
             => /\ DepsOf(W2) = << "dm" \o sep \o "5" >>
                /\ MissingOf(W2) = << >>
        /\ StoredActions(heap[W2]) = << FindRecord(9) >>
             => /\ DepsOf(W2) = << "dm" \o sep \o "9" >>
                /\ MissingOf(W2) = << "dm" \o sep \o "9" >>
                /\ \E i \in DOMAIN missing_dependencies :
                     missing_dependencies[i]["missing_dependencies"]
                       = PyList(<< "dm" \o sep \o "9" >>)

\* C4 as stated: keys are <kind tag>:<local identifier>; find_record 5 gives
\* ["dm:5"] and nothing missing, find_record 9 gives ["dm:9"], missing
\* ["dm:9"] and a report entry with ["dm:9"].
C4_AsStated == ScenariosAB(":")

\* C4 amended: the separator is ^: find_record 5 gives ["dm^5"] and nothing
\* missing, find_record 9 gives ["dm^9"], missing ["dm^9"] and a report entry
\* whose missing_dependencies is ["dm^9"].
C4_ScenariosAB == ScenariosAB("^")

\* Scenario B has run
C4_Witness ==
    /\ OnlyDm5 /\ Analysed(W2)
    /\ StoredActions(heap[W2]) = << FindRecord(9) >>
    /\ MissingOf(W2) = << "dm^9" >>
    /\ missing_dependencies # << >>

-----------------------------------------------------------------------------
(* C5 *)

\* The trigger as stored in the workflow record
TriggerOf(vp) ==
    IF "trigger" \in DOMAIN vp /\ vp["trigger"] # PyNone THEN vp["trigger"]
    ELSE EmptyDict

\* A function, job or dedicated_job trigger with its name
Addressable(vp) ==
    TypeOf(TriggerOf(vp)) \in NamedTypes /\ NamePresent(TriggerOf(vp))

\* Action a refers to the function named as the id of workflow w
RefersToId(a, w) ==
    /\ "id" \in DOMAIN heap[w]
    /\ TypeOf(a) = "function" /\ NamePresent(a)
    /\ Str(a["function"]["name"]) = Str(heap[w]["id"])

FuncKeyOfId(w) == KindPrefix("func") \o Str(heap[w]["id"])

\* Some workflow given to the constructor has a function trigger of that name
FunctionNamed(name) ==
    \E f \in Range(full_vp_data) :
        /\ Addressable(heap[f])
        /\ TypeOf(TriggerOf(heap[f])) = "function"
        /\ Str(TriggerOf(heap[f])["function"]["name"]) = name

\* No index key maps to w, and every analysed reference to func^<id of w> from
\* another workflow is a dependency and is missing: always, or exactly when no
\* function of that name was given to the constructor
NotATarget(w, alwaysMissing) ==
    /\ \A k \in DOMAIN indexed_component_list : indexed_component_list[k] # w
    /\ \A v \in VpRefs \ {w} :
         Analysed(v) =>
           \A i \in DOMAIN StoredActions(heap[v]) :
             RefersToId(StoredActions(heap[v])[i], w) =>
               /\ FuncKeyOfId(w) \in Range(DepsOf(v))
               /\ (FuncKeyOfId(w) \in Range(MissingOf(v)))
                    <=> (alwaysMissing \/ ~FunctionNamed(Str(heap[w]["id"])))

-----------------------------------------------------------------------------
(* C6 *)

IsPrefix(s, t) == Len(s) <= Len(t) /\ SubSeq(t, 1, Len(s)) = s

\* One entry per workflow of the batch, in batch order
StatedEntries(vp_data) ==
    [ i \in 1..Len(vp_data) |->
        [ component_id |-> heap[vp_data[i]]["id"],
          component_name |-> heap[vp_data[i]]["name"],
          missing_dependencies |->
              PyList(Unresolved(KeysOf(StoredActions(heap[vp_data[i]])))) ] ]

\* C6: every call appends one entry per workflow of its batch, in order, after
\* the entries already there, and no step removes or changes an earlier entry;
\* a workflow without actions gets an entry with an empty missing list.
C6_ReportIsAdditive ==
    [][ /\ IsPrefix(missing_dependencies, missing_dependencies')
        /\ \A vp_data \in SeqsUpTo(VpRefs, MaxReport) :
             Analyze(vp_data) =>
               missing_dependencies'
                 = missing_dependencies \o StatedEntries(vp_data) ]_vars

\* Workflow 1, which has no action list, was processed twice: two equal
\* entries with an empty missing list
C6_Witness ==
    /\ Len(missing_dependencies) = 2
    /\ missing_dependencies[1] = missing_dependencies[2]
    /\ missing_dependencies[1]["component_id"] = PyInt(7)
    /\ missing_dependencies[1]["missing_dependencies"] = PyList(<< >>)
    /\ "actions" \notin DOMAIN heap[W1]

-----------------------------------------------------------------------------
(* C9 *)

\* C9 as stated: get_missing_dependencies returns the entries accumulated so
\* far and changes nothing else, and what a caller reads through a result it
\* already holds is not changed by a later step.
C9_AsStated ==
    [][ /\ GetMissing =>
             Observe(result', missing_dependencies') = missing_dependencies
        /\ (result # NoResult /\ result' = result) =>
             Observe(result', missing_dependencies')
               = Observe(result, missing_dependencies) ]_vars

-----------------------------------------------------------------------------
(* The records given to the constructor, in the terms of the statements *)

\* The four collections in the order the constructor reads them
Order ==
    full_dm_data \o full_single_exp_data \o full_multi_exp_data \o full_vp_data

Tags == { "dm", "single_exp", "multi_exp", "func", "job", "djob" }

\* The kind of a record: that of its collection, and for a workflow that of
\* its trigger
KindOf(ref) ==
    CASE ref \in Range(full_dm_data) -> "dm"
      [] ref \in Range(full_single_exp_data) -> "single_exp"
      [] ref \in Range(full_multi_exp_data) -> "multi_exp"
      [] ref \in Range(full_vp_data) /\ Addressable(heap[ref])
           -> TagOfType(TypeOf(TriggerOf(heap[ref])))
      [] OTHER -> "none"

\* The record has the identifier its kind is keyed by
YieldsKey(ref) ==
    /\ KindOf(ref) # "none"
    /\ ref \in Range(full_vp_data) \/ "id" \in DOMAIN heap[ref]

LocalId(ref) ==
    IF ref \in Range(full_vp_data)
    THEN Str(TriggerOf(heap[ref])[TypeOf(TriggerOf(heap[ref]))]["name"])
    ELSE Str(heap[ref]["id"])

RecordKey(ref) == KindPrefix(KindOf(ref)) \o LocalId(ref)

\* No two records given to the constructor yield the same key
NoCollision ==
    \A i, j \in DOMAIN Order :
        (i # j /\ YieldsKey(Order[i]) /\ YieldsKey(Order[j]))
          => RecordKey(Order[i]) # RecordKey(Order[j])

-----------------------------------------------------------------------------
(* C7 *)

\* C7 as stated: construction raises nothing whatever field a record lacks;
\* a record lacking its id, trigger or trigger name is under no key, and every
\* record that has its identifier is indexed under its key.
C7_AsStated ==
    pc # "new" =>
      /\ pc = "ready"
      /\ \A k \in DOMAIN indexed_component_list :
           YieldsKey(indexed_component_list[k])
      /\ \A r \in Range(Order) :
           YieldsKey(r) => RecordKey(r) \in DOMAIN indexed_component_list

-----------------------------------------------------------------------------
(* C8 *)

\* The key of every record is probed successfully unless a later record has
\* the same key
RoundTrip ==
    \A i \in DOMAIN Order :
        ( /\ YieldsKey(Order[i])
          /\ \A j \in DOMAIN Order :
               (j > i /\ YieldsKey(Order[j]))
                 => RecordKey(Order[j]) # RecordKey(Order[i]) )
        => /\ RecordKey(Order[i]) \in DOMAIN indexed_component_list
           /\ indexed_component_list[RecordKey(Order[i])] = Order[i]

\* A key of kind tag t maps to a record of kind t only
KindSeparation ==
    \A k \in DOMAIN indexed_component_list, t \in Tags :
        (\E r \in Range(Order) : YieldsKey(r) /\ k = KindPrefix(t) \o LocalId(r))
          => KindOf(indexed_component_list[k]) = t

\* The local identifier of a record probed under another tag hits only if a
\* record of that kind has that identifier
OtherTagMisses ==
    \A r \in Range(Order), t \in Tags :
        ( /\ YieldsKey(r) /\ t # KindOf(r)
          /\ KindPrefix(t) \o LocalId(r) \in DOMAIN indexed_component_list )
        => \E q \in Range(Order) :
             YieldsKey(q) /\ KindOf(q) = t /\ LocalId(q) = LocalId(r)

\* C8: after construction every record that yields a key is found under that
\* key (unless a later record has the same key), a key of kind tag t maps to a
\* record of kind t only, and a local identifier probed under another tag hits
\* only if a record of that other kind has it.
C8_RoundTripAndKinds ==
    pc = "ready" => (RoundTrip /\ KindSeparation /\ OtherTagMisses)

\* Id 5 is a Data Manager and, apart from it, a Single-Form record, but no
\* Multiple-Form record; X is a function but not a job
C8_Witness ==
    /\ pc = "ready"
    /\ "dm^5" \in DOMAIN indexed_component_list
    /\ "single_exp^5" \in DOMAIN indexed_component_list
    /\ indexed_component_list["dm^5"] # indexed_component_list["single_exp^5"]
    /\ "multi_exp^5" \notin DOMAIN indexed_component_list
    /\ "multi_exp^9" \in DOMAIN indexed_component_list
    /\ "func^X" \in DOMAIN indexed_component_list
    /\ "job^X" \notin DOMAIN indexed_component_list

-----------------------------------------------------------------------------
(* C10 *)

\* C10: when no two records yield the same key, a second instance built from
\* the same collections, each in any order, has the same index: same keys,
\* same record under each key.
C10_IndexIgnoresOrder ==
    (pc = "ready" /\ rebuilt_index # Unbuilt /\ NoCollision)
      => /\ rebuilt_index.raised = ""
         /\ rebuilt_index.index = indexed_component_list

\* A rebuilt index over lists of two records each, without collisions
C10_Witness ==
    /\ pc = "ready" /\ rebuilt_index # Unbuilt /\ NoCollision
    /\ Len(full_dm_data) = 2
    /\ Len(full_single_exp_data) = 2 /\ Len(full_multi_exp_data) = 2
    /\ Len(full_vp_data) = 2
    /\ \A r \in Range(full_vp_data) : YieldsKey(r)
    /\ Cardinality(DOMAIN rebuilt_index.index) = 8

-----------------------------------------------------------------------------
(* C11 *)

\* The positions of the records that yield key k, in processing order
YieldersOf(k) ==
    { i \in DOMAIN Order : YieldsKey(Order[i]) /\ RecordKey(Order[i]) = k }

Largest(S) == CHOOSE m \in S : \A n \in S : n <= m

YieldedKeys == { RecordKey(r) : r \in { q \in Range(Order) : YieldsKey(q) } }

\* Every Data Manager, Single-Form and Multiple-Form record has its id
AllHaveIds ==
    \A r \in Range(full_dm_data \o full_single_exp_data \o full_multi_exp_data) :
        "id" \in DOMAIN heap[r]

\* C11: when two records yield the same key, construction raises nothing, the
\* index maps the key to the record processed last (Data Managers, then
\* Single-Form, Multiple-Form, workflows, each in list order), and the index
\* has one entry per key yielded.
C11_LastWriteWins ==
    (pc # "new" /\ AllHaveIds) =>
      /\ pc = "ready"
      /\ DOMAIN indexed_component_list = YieldedKeys
      /\ \A k \in YieldedKeys :
           Cardinality(YieldersOf(k)) > 1 =>
             indexed_component_list[k] = Order[Largest(YieldersOf(k))]

\* Data Managers 5 and "5" collide on dm^5, two workflows collide on a
\* trigger key; each key is held by the second record
C11_Witness ==
    /\ pc = "ready"
    /\ Len(full_dm_data) = 2
    /\ YieldersOf("dm^5") = {1, 2}
    /\ indexed_component_list["dm^5"] = Ref("dm", 2)
    /\ Len(full_vp_data) = 2
    /\ \E k \in YieldedKeys :
         /\ { Order[i] : i \in YieldersOf(k) } = { Ref("vp", 1), Ref("vp", 2) }
         /\ indexed_component_list[k] = Ref("vp", 2)

-----------------------------------------------------------------------------
(* C12 *)

AnnotationFields == { "vp_dependencies", "vp_missing_dependencies" }

\* A record without its two annotations
OtherFields(d) == [f \in (DOMAIN d) \ AnnotationFields |-> d[f]]

\* C12: a call changes nothing but the two annotations of the workflows of
\* its batch and the report it appends to: the index keeps its keys and the
\* record under each key, every other field of every record is as before,
\* workflows outside the batch are untouched, and the collection returned is
\* the batch, same workflows in the same order.
C12_OnlyAnnotationsChange ==
    [][ \A vp_data \in SeqsUpTo(VpRefs, MaxReport) :
          Analyze(vp_data) =>
            /\ indexed_component_list' = indexed_component_list
            /\ DOMAIN heap' = DOMAIN heap
            /\ \A ref \in DOMAIN heap :
                 /\ OtherFields(heap'[ref]) = OtherFields(heap[ref])
                 /\ ref \notin Range(vp_data) => heap'[ref] = heap[ref]
            /\ IsPrefix(missing_dependencies, missing_dependencies')
            /\ returned'.called /\ returned'.value = vp_data
            /\ UNCHANGED << full_dm_data, full_single_exp_data,
                            full_multi_exp_data, full_vp_data, pc, result >>
      ]_vars

\* Workflow 2 is in the index under func^7 and was analysed in the batch
\* [workflow 2, workflow 1], which is what the call returned
C12_Witness ==
    /\ returned = ReturnValue(<< W2, W1 >>)
    /\ "func^7" \in DOMAIN indexed_component_list
    /\ indexed_component_list["func^7"] = W2
    /\ Analysed(W2) /\ Analysed(W1)
    /\ DepsOf(W2) # << >>
    /\ "trigger" \in DOMAIN heap[W2] /\ "actions" \in DOMAIN heap[W2]

-----------------------------------------------------------------------------
(* C14 *)

\* C14: analysing a workflow again leaves it with annotations equal to those
\* of the analysis before (the lists are rebuilt from empty, never extended),
\* and the report entry appended for a workflow carries the workflow's id and
\* name and a missing list equal to its vp_missing_dependencies annotation.
C14_ReanalysisIdempotent ==
    [][ \A vp_data \in SeqsUpTo(VpRefs, MaxReport) :
          Analyze(vp_data) =>
            /\ \A ref \in Range(vp_data) :
                 Analysed(ref) =>
                   /\ heap'[ref]["vp_dependencies"] = heap[ref]["vp_dependencies"]
                   /\ heap'[ref]["vp_missing_dependencies"] =
                        heap[ref]["vp_missing_dependencies"]
            /\ Len(missing_dependencies') =
                 Len(missing_dependencies) + Len(vp_data)
            /\ \A j \in 1..Len(vp_data) :
                 LET entry == missing_dependencies'[Len(missing_dependencies) + j]
                     vp == heap'[vp_data[j]]
                 IN  /\ entry.missing_dependencies = vp["vp_missing_dependencies"]
                     /\ entry.component_id = vp["id"]
                     /\ entry.component_name = vp["name"]
      ]_vars

\* Workflow 2 was analysed twice, one call after the other, with a dependency
\* that is missing and one that is not
C14_Witness ==
    /\ Len(missing_dependencies) = 2
    /\ \A j \in 1..2 :
         /\ missing_dependencies[j].component_id = PyInt(8)
         /\ missing_dependencies[j].missing_dependencies =
              heap[W2]["vp_missing_dependencies"]
    /\ returned = ReturnValue(<< W2 >>)
    /\ Len(DepsOf(W2)) = 2 /\ Len(MissingOf(W2)) = 1

-----------------------------------------------------------------------------
(* C13 *)

AllReturned == \A w \in WorkerIds : workers[w].pc = "returned"

\* The workflows of the two batches, worker 1's first
Processed == workers[1].vp_data \o workers[2].vp_data

\* One call over the same workflows, on its own
SequentialRun ==
    AnalyzeBatch([heap |-> heap, report |-> << >>], indexed_component_list,
                 Processed, 1)

\* C13: when both workers have returned, whatever the interleaving was, the
\* report holds exactly one entry per processed workflow, in some order, and
\* each processed workflow carries the dependency and missing lists that a
\* sequential run over the same workflows gives it.
C13_ConcurrentAsSequential ==
    (workers # NoWorkers /\ AllReturned) =>
      /\ Len(missing_dependencies) = Len(Processed)
      /\ \A i \in DOMAIN Processed :
           Cardinality({ j \in DOMAIN missing_dependencies :
                           missing_dependencies[j] = SequentialRun.report[i] }) = 1
      /\ \A ref \in Range(Processed) :
           /\ Analysed(ref)
           /\ DepsOf(ref) = KeysOf(StoredActions(heap[ref]))
           /\ MissingOf(ref) = Unresolved(DepsOf(ref))
           /\ heap[ref] = SequentialRun.heap[ref]

\* Worker 1 had workflows 1 and 2, worker 2 workflow 3, and the entry of
\* workflow 3 landed between those of worker 1; workflow 1 has two actions
C13_Witness ==
    /\ workers # NoWorkers /\ AllReturned
    /\ workers[1].vp_data = << W1, W2 >>
    /\ workers[2].vp_data = << W3Ref >>
    /\ Len(missing_dependencies) = 3
    /\ missing_dependencies[1].component_id = PyInt(7)
    /\ missing_dependencies[2].component_id = PyInt(9)
    /\ missing_dependencies[3].component_id = PyInt(8)
    /\ Len(DepsOf(W1)) = 2
    /\ MissingOf(W2) = << "dm^9" >>

====
